---- MODULE Spec2Model ----
\* performance-vector-pessimization (VectorPessimizationCheck.cpp): the
\* predicate willDegradeToCopy over the types of a translation unit, the match
\* callback check, and the note chain built by recursivelyCheckMembers; the
\* exception-specification oracle it borrows; the match callback of
\* performance-vector-initializer-list (VectorInitializerListCheck.cpp); and
\* the comparison operators of clangd's TextEdit (Protocol.h).
EXTENDS Integers, Sequences, FiniteSets

\* ------------------------------------------------------------------ bounds
\* Class declarations of a translation unit (records 0 .. NumRecords-1).
NumRecords == 7
\* Records 0 .. ChainLen-1 vary in the chain-shaped translation units.
ChainLen == 4
\* Longest constructor, field and base-specifier list of a varied record.
MaxCtors == 3
MaxFields == 2
MaxBases == 2
\* Matches delivered to the callback in the fixture translation unit.
MaxCalls == 2
\* Records 0 .. GraphNodes-1 vary in the translation units of arbitrary
\* member and base graphs.
GraphNodes == 2
\* Classifications asked of the exception-specification oracle in one run.
MaxQueries == 4
\* Initializers of a matched initializer list.
MaxInits == 2
\* Lines and characters of a Position, and the length of a string of a
\* TextEdit.
MaxLine == 1
MaxCharacter == 1
MaxText == 1

\* ------------------------------------------------------- program constants
MaxRecursionDepth == 3

\* ------------------------------------------------------------------- types
\* A type is a class type (a record, defined or only declared), or one of
\* three types without a class declaration: int (BuiltinType), an
\* enumeration, and a pointer (neither builtin, nor enum, nor record).
Records == 0 .. NumRecords - 1
IntTy == NumRecords
EnumTy == NumRecords + 1
PtrTy == NumRecords + 2
Types == 0 .. NumRecords + 2

\* utils::ExceptionSpecAnalyzer::State
ExceptionStates == {"NotThrowing", "Throwing", "Unknown"}

SeqsUpTo(S, n) == UNION {[1 .. k -> S] : k \in 0 .. n}

Min(S) == CHOOSE x \in S : \A y \in S : x <= y

\* A declared constructor: what the check reads of a CXXConstructorDecl, and
\* the state the exception-specification analysis computes for it. A
\* constructor that is no move constructor is only ever skipped; the one
\* modelled is the fixture's user-provided copy constructor.
CopyCtor == [isMoveConstructor |-> FALSE, isUserProvided |-> TRUE, state |-> "Throwing"]

MoveCtor(up, st) == [isMoveConstructor |-> TRUE, isUserProvided |-> up, state |-> st]

Ctors == {CopyCtor} \cup {MoveCtor(up, st) : up \in BOOLEAN, st \in ExceptionStates}

\* A base specifier: CXXBaseSpecifier::getType, isVirtual.
Base(t, v) == [type |-> t, virtual |-> v]

BaseSpecs == {Base(t, v) : t \in Records, v \in BOOLEAN}

\* A CXXRecordDecl: hasDefinition, isTriviallyCopyable, ctors(), fields()
\* (each field by its type), bases().
Decl(def, tc, cs, fs, bs) == [def |-> def, tc |-> tc, ctors |-> cs, fields |-> fs, bases |-> bs]

Undefined == Decl(FALSE, FALSE, <<>>, <<>>, <<>>)

\* The classes of the test file, in the order
\*   0 ContainsDeeplyNestedThrowingMoveConstructor   1 ContainsThrowingMoveConstructor
\*   2 ContainsThrowingMoveConstructor::Inner        3 MoveConstructorThrows
\*   4 DerivedFromMoveConstructorThrows              5 NothrowMoveConstructibleExample
\*   6 TriviallyCopyableExample
\* and any further record only declared.
FixtureDecl(r) ==
  CASE r = 0 -> Decl(TRUE, FALSE, <<>>, <<1>>, <<>>)
    [] r = 1 -> Decl(TRUE, FALSE, <<>>, <<EnumTy, 2>>, <<>>)
    [] r = 2 -> Decl(TRUE, FALSE, <<>>, <<3>>, <<>>)
    [] r = 3 -> Decl(TRUE, FALSE, <<CopyCtor, MoveCtor(TRUE, "Throwing")>>, <<>>, <<>>)
    [] r = 4 -> Decl(TRUE, FALSE, <<>>, <<>>, <<Base(3, FALSE)>>)
    [] r = 5 -> Decl(TRUE, FALSE, <<CopyCtor, MoveCtor(TRUE, "NotThrowing")>>, <<>>, <<>>)
    [] r = 6 -> Decl(TRUE, TRUE, <<>>, <<IntTy>>, <<>>)
    [] OTHER -> Undefined

Fixture == [r \in Records |-> FixtureDecl(r)]

\* ------------------------------------------------------ translation units
\* The constructor lists a class can declare: a trivially copyable class has
\* no user-provided copy or move constructor.
CtorLists(tc) ==
  {cs \in SeqsUpTo(Ctors, MaxCtors) : tc => \A i \in DOMAIN cs : ~cs[i].isUserProvided}

\* Record 0 with every constructor list, over the fixture's other classes.
CtorEnvs ==
  UNION {{[Fixture EXCEPT ![0] = Decl(TRUE, tc, cs, fs, bs)] :
            cs \in CtorLists(tc), fs \in {<<>>, <<3>>}, bs \in {<<>>, <<Base(3, FALSE)>>}} :
         tc \in BOOLEAN}

\* Record 0 with every field list.
FieldScanEnvs ==
  {[Fixture EXCEPT ![0] = Decl(TRUE, FALSE, cs, fs, bs)] :
     cs \in {<<>>, <<CopyCtor, MoveCtor(TRUE, "Throwing")>>},
     fs \in SeqsUpTo(Types, MaxFields), bs \in {<<>>, <<Base(3, FALSE)>>}}

\* Record 0 with every base-specifier list.
BaseScanEnvs ==
  {[Fixture EXCEPT ![0] = Decl(TRUE, FALSE, <<>>, fs, bs)] :
     fs \in {<<>>, <<IntTy>>}, bs \in SeqsUpTo(BaseSpecs, MaxBases)}

\* Records 0 .. ChainLen-1 in a ring: each is only declared, or has a nothrow
\* move constructor and no member, or has no or a throwing move constructor
\* and at most one field of the next record's type, or has no constructor and
\* the next record as its base.
ChainShapes ==
  {[def |-> FALSE, ctors |-> <<>>, link |-> "none"],
   [def |-> TRUE, ctors |-> <<CopyCtor, MoveCtor(TRUE, "NotThrowing")>>, link |-> "none"],
   [def |-> TRUE, ctors |-> <<>>, link |-> "base"]}
  \cup {[def |-> TRUE, ctors |-> cs, link |-> l] :
          cs \in {<<>>, <<CopyCtor, MoveCtor(TRUE, "Throwing")>>},
          l \in {"none", "field"}}

ChainDecl(r, shape) ==
  LET next == (r + 1) % ChainLen
  IN Decl(shape.def, FALSE, shape.ctors,
          IF shape.link = "field" THEN <<next>> ELSE <<>>,
          IF shape.link = "base" THEN <<Base(next, FALSE)>> ELSE <<>>)

ChainEnvs ==
  {[r \in Records |-> IF r < ChainLen THEN ChainDecl(r, pick[r]) ELSE FixtureDecl(r)] :
     pick \in [0 .. ChainLen - 1 -> ChainShapes]}

\* Records 0 .. GraphNodes-1 in an arbitrary graph: each is only declared, or
\* is defined with no or a throwing move constructor and no member, or one
\* field, or one base, of the type of any of these records, itself included.
GraphShapes ==
  {[def |-> FALSE, ctors |-> <<>>, link |-> "none", to |-> 0]}
  \cup {[def |-> TRUE, ctors |-> cs, link |-> "none", to |-> 0] :
          cs \in {<<>>, <<CopyCtor, MoveCtor(TRUE, "Throwing")>>}}
  \cup {[def |-> TRUE, ctors |-> cs, link |-> l, to |-> t] :
          cs \in {<<>>, <<CopyCtor, MoveCtor(TRUE, "Throwing")>>},
          l \in {"field", "base"}, t \in 0 .. GraphNodes - 1}

GraphDecl(shape) ==
  Decl(shape.def, FALSE, shape.ctors,
       IF shape.link = "field" THEN <<shape.to>> ELSE <<>>,
       IF shape.link = "base" THEN <<Base(shape.to, FALSE)>> ELSE <<>>)

GraphEnvs ==
  {[r \in Records |-> IF r < GraphNodes THEN GraphDecl(pick[r]) ELSE FixtureDecl(r)] :
     pick \in [0 .. GraphNodes - 1 -> GraphShapes]}

\* ------------------------------------------------------------------- state
VARIABLES
  env,      \* the class declarations of the translation unit: Records -> Decl
  matches,  \* matches the MatchFinder has still to deliver
  sink,     \* the diagnostics emitted so far, in order
  call,     \* <<>>, or the one invocation of recursivelyCheckMembers about to run
  last,     \* <<>>, or the last match delivered and the length of sink before it
  frames,   \* the invocations of recursivelyCheckMembers made for the last match
  cache,    \* ExceptionSpecAnalyzer: the classifications stored, as [key, state]
  answers,  \* ExceptionSpecAnalyzer: the classifications returned so far, in order
  diags,    \* performance-vector-initializer-list: the diagnostics emitted, in order
  delivered,\* performance-vector-initializer-list: <<>>, or the match delivered
  operands, \* clangd: <<>>, or the two TextEdit values being compared
  verdict   \* clangd: <<>>, or what operator== and operator< answered for them

vars == <<env, matches, sink, call, last, frames,
          cache, answers, diags, delivered, operands, verdict>>

\* The state of the parts a specification does not exercise.
OracleIdle == cache = {} /\ answers = <<>>

InitListIdle == diags = <<>> /\ delivered = <<>>

EditIdle == operands = <<>> /\ verdict = <<>>

\* ------------------------------------------------------- host type queries
\* Type::getAsCXXRecordDecl: <<>> is the null pointer.
getAsCXXRecordDecl(Type) == IF Type \in Records THEN <<Type>> ELSE <<>>

isBuiltinType(Type) == Type = IntTy

isEnumeralType(Type) == Type = EnumTy

\* ExceptionSpecAnalyzer::analyze of constructor i of Record.
analyze(Record, i) == env[Record].ctors[i].state

\* The first of the indexes at which a range-for loop's test succeeds, 0 when
\* there is none: the loop returns at its first hit, and a null pointer after it.
FirstIndex(hits) == IF hits = {} THEN 0 ELSE Min(hits)

\* ------------------------------------------------------------ the predicate
\* hasNothrowMoveConstructor answering for any move constructor, not the first.
hasNothrowMoveConstructor_AnyMove(Type) ==
  LET Record == getAsCXXRecordDecl(Type)
  IN IF Record = <<>> \/ ~env[Record[1]].def
     THEN FALSE
     ELSE \E i \in DOMAIN env[Record[1]].ctors :
            /\ env[Record[1]].ctors[i].isMoveConstructor
            /\ analyze(Record[1], i) # "Throwing"

\* hasNothrowMoveConstructor answering for the last move constructor declared.
hasNothrowMoveConstructor_LastMove(Type) ==
  LET Record == getAsCXXRecordDecl(Type)
  IN IF Record = <<>> \/ ~env[Record[1]].def
     THEN FALSE
     ELSE LET ctors == env[Record[1]].ctors
              moves == {i \in DOMAIN ctors : ctors[i].isMoveConstructor}
          IN IF moves = {}
             THEN FALSE
             ELSE analyze(Record[1], CHOOSE i \in moves : \A j \in moves : j <= i) # "Throwing"

hasNothrowMoveConstructor(Type) ==
  LET Record == getAsCXXRecordDecl(Type)
  IN IF Record = <<>> \/ ~env[Record[1]].def
     THEN FALSE
     ELSE LET ctors == env[Record[1]].ctors
              Constructor == FirstIndex({i \in DOMAIN ctors : ctors[i].isMoveConstructor})
          IN IF Constructor = 0
             THEN FALSE
             ELSE analyze(Record[1], Constructor) # "Throwing"

\* getThrowingUserDefinedMoveConstructor going on to the next constructor when
\* a user-provided move constructor is not classified Throwing.
getThrowingUserDefinedMoveConstructor_AnyThrowing(Record) ==
  LET ctors == env[Record].ctors
  IN FirstIndex({i \in DOMAIN ctors :
                   /\ ctors[i].isMoveConstructor
                   /\ ctors[i].isUserProvided
                   /\ analyze(Record, i) = "Throwing"})

\* The index of the constructor returned, 0 for nullptr.
getThrowingUserDefinedMoveConstructor(Record) ==
  LET ctors == env[Record].ctors
      Constructor == FirstIndex({i \in DOMAIN ctors :
                                   ctors[i].isMoveConstructor /\ ctors[i].isUserProvided})
  IN IF Constructor = 0
     THEN 0
     ELSE IF analyze(Record, Constructor) = "Throwing" THEN Constructor ELSE 0

\* isTriviallyCopyable without its builtin and enumeration case.
isTriviallyCopyable_NoBuiltinCase(Type) ==
  LET Record == getAsCXXRecordDecl(Type)
  IN IF Record = <<>> \/ ~env[Record[1]].def
     THEN FALSE
     ELSE env[Record[1]].tc

\* isTriviallyCopyable never asking the record.
isTriviallyCopyable_IgnoresRecord(Type) ==
  isBuiltinType(Type) \/ isEnumeralType(Type)

isTriviallyCopyable(Type) ==
  IF isBuiltinType(Type) \/ isEnumeralType(Type)
  THEN TRUE
  ELSE LET Record == getAsCXXRecordDecl(Type)
       IN IF Record = <<>> \/ ~env[Record[1]].def
          THEN FALSE
          ELSE env[Record[1]].tc

willDegradeToCopy(Type) ==
  ~isTriviallyCopyable(Type) /\ ~hasNothrowMoveConstructor(Type)

\* getFirstThrowingDataMember returning the last hit of its loop.
getFirstThrowingDataMember_Last(Record) ==
  LET hits == {i \in DOMAIN env[Record].fields : willDegradeToCopy(env[Record].fields[i])}
  IN IF hits = {} THEN 0 ELSE CHOOSE i \in hits : \A j \in hits : j <= i

\* getFirstThrowingDataMember without its test of willDegradeToCopy.
getFirstThrowingDataMember_FirstField(Record) ==
  FirstIndex(DOMAIN env[Record].fields)

\* The index of the field returned, 0 for nullptr. Every field of fields() is
\* non-null and a class member, so the loop's test is willDegradeToCopy alone.
getFirstThrowingDataMember(Record) ==
  LET fields == env[Record].fields
  IN FirstIndex({i \in DOMAIN fields : willDegradeToCopy(fields[i])})

\* getFirstThrowingBaseClass returning the last hit of its loop.
getFirstThrowingBaseClass_Last(Record) ==
  LET bases == env[Record].bases
      hits == {i \in DOMAIN bases : ~bases[i].virtual /\ willDegradeToCopy(bases[i].type)}
  IN IF hits = {} THEN 0 ELSE CHOOSE i \in hits : \A j \in hits : j <= i

\* getFirstThrowingBaseClass without its test of isVirtual.
getFirstThrowingBaseClass_IncludesVirtual(Record) ==
  LET bases == env[Record].bases
  IN FirstIndex({i \in DOMAIN bases : willDegradeToCopy(bases[i].type)})

\* The index of the base specifier returned, 0 for std::nullopt.
getFirstThrowingBaseClass(Record) ==
  LET bases == env[Record].bases
  IN FirstIndex({i \in DOMAIN bases :
                   ~bases[i].virtual /\ willDegradeToCopy(bases[i].type)})

\* -------------------------------------------------------------- diagnostics
\* diag(location, message, level) << argument. A location is a declaration of
\* the translation unit (a record, or constructor, field or base specifier
\* index of a record) or the type location of a match; arg is the type the
\* message names, 0 - 1 when it names none. Types carry no qualifiers here, so
\* the member type named is the field's type as it is.
Diag(level, msg, kind, owner, index, arg) ==
  [level |-> level, msg |-> msg, kind |-> kind, owner |-> owner, index |-> index, arg |-> arg]

WillCopy(site, ValueType) == Diag("warning", "will copy elements on resize", "typeloc", site, 0, ValueType)

DefinedHere(Record) == Diag("note", "defined here", "record", Record, 0, Record)

ThrowingCtorHere(Record, i) ==
  Diag("note", "throwing move constructor declared here", "ctor", Record, i, 0 - 1)

BecauseMember(Record, i) ==
  Diag("note", "because the move constructor may throw", "field", Record, i, env[Record].fields[i])

BecauseBase(Record, i) ==
  Diag("note", "because the move constructor may throw", "base", Record, i, env[Record].bases[i].type)

\* ---------------------------------------------------------------- the chain
Invocation(Type, RecursionDepth) == [Type |-> Type, RecursionDepth |-> RecursionDepth]

\* Recurse testing RecursionDepth > MaxRecursionDepth, which lets one more
\* level through.
Recurse_OneDeeper(Type, RecursionDepth) ==
  IF RecursionDepth > MaxRecursionDepth
  THEN <<>>
  ELSE <<Invocation(Type, RecursionDepth + 1)>>

\* The recursive call a member or base branch ends with, <<>> at the depth limit.
Recurse(Type, RecursionDepth) ==
  IF RecursionDepth >= MaxRecursionDepth
  THEN <<>>
  ELSE <<Invocation(Type, RecursionDepth + 1)>>

\* Explain with the member scan tried before the constructor test.
Explain_MemberBeforeCtor(Type, RecursionDepth) ==
  LET Record == getAsCXXRecordDecl(Type)
  IN IF Record = <<>> \/ ~env[Record[1]].def
     THEN [notes |-> <<>>, next |-> <<>>]
     ELSE LET R == Record[1]
              MoveCTOR == getThrowingUserDefinedMoveConstructor(R)
              ThrowingDataMember == getFirstThrowingDataMember(R)
              ThrowingBaseClass == getFirstThrowingBaseClass(R)
          IN IF ThrowingDataMember # 0
             THEN [notes |-> <<DefinedHere(R), BecauseMember(R, ThrowingDataMember)>>,
                   next |-> Recurse(env[R].fields[ThrowingDataMember], RecursionDepth)]
             ELSE IF MoveCTOR # 0
             THEN [notes |-> <<DefinedHere(R), ThrowingCtorHere(R, MoveCTOR)>>, next |-> <<>>]
             ELSE IF ThrowingBaseClass # 0
             THEN [notes |-> <<DefinedHere(R), BecauseBase(R, ThrowingBaseClass)>>,
                   next |-> Recurse(env[R].bases[ThrowingBaseClass].type, RecursionDepth)]
             ELSE [notes |-> <<DefinedHere(R)>>, next |-> <<>>]

\* Explain with the base scan tried before the member scan.
Explain_BaseBeforeMember(Type, RecursionDepth) ==
  LET Record == getAsCXXRecordDecl(Type)
  IN IF Record = <<>> \/ ~env[Record[1]].def
     THEN [notes |-> <<>>, next |-> <<>>]
     ELSE LET R == Record[1]
              MoveCTOR == getThrowingUserDefinedMoveConstructor(R)
              ThrowingDataMember == getFirstThrowingDataMember(R)
              ThrowingBaseClass == getFirstThrowingBaseClass(R)
          IN IF MoveCTOR # 0
             THEN [notes |-> <<DefinedHere(R), ThrowingCtorHere(R, MoveCTOR)>>, next |-> <<>>]
             ELSE IF ThrowingBaseClass # 0
             THEN [notes |-> <<DefinedHere(R), BecauseBase(R, ThrowingBaseClass)>>,
                   next |-> Recurse(env[R].bases[ThrowingBaseClass].type, RecursionDepth)]
             ELSE IF ThrowingDataMember # 0
             THEN [notes |-> <<DefinedHere(R), BecauseMember(R, ThrowingDataMember)>>,
                   next |-> Recurse(env[R].fields[ThrowingDataMember], RecursionDepth)]
             ELSE [notes |-> <<DefinedHere(R)>>, next |-> <<>>]

\* Explain with the depth test missing from its base branch.
Explain_BaseUnlimited(Type, RecursionDepth) ==
  LET Record == getAsCXXRecordDecl(Type)
  IN IF Record = <<>> \/ ~env[Record[1]].def
     THEN [notes |-> <<>>, next |-> <<>>]
     ELSE LET R == Record[1]
              MoveCTOR == getThrowingUserDefinedMoveConstructor(R)
              ThrowingDataMember == getFirstThrowingDataMember(R)
              ThrowingBaseClass == getFirstThrowingBaseClass(R)
          IN IF MoveCTOR # 0
             THEN [notes |-> <<DefinedHere(R), ThrowingCtorHere(R, MoveCTOR)>>, next |-> <<>>]
             ELSE IF ThrowingDataMember # 0
             THEN [notes |-> <<DefinedHere(R), BecauseMember(R, ThrowingDataMember)>>,
                   next |-> Recurse(env[R].fields[ThrowingDataMember], RecursionDepth)]
             ELSE IF ThrowingBaseClass # 0
             THEN [notes |-> <<DefinedHere(R), BecauseBase(R, ThrowingBaseClass)>>,
                   next |-> <<Invocation(env[R].bases[ThrowingBaseClass].type, RecursionDepth + 1)>>]
             ELSE [notes |-> <<DefinedHere(R)>>, next |-> <<>>]

\* Explain with the depth test missing from its member branch.
Explain_MemberUnlimited(Type, RecursionDepth) ==
  LET Record == getAsCXXRecordDecl(Type)
  IN IF Record = <<>> \/ ~env[Record[1]].def
     THEN [notes |-> <<>>, next |-> <<>>]
     ELSE LET R == Record[1]
              MoveCTOR == getThrowingUserDefinedMoveConstructor(R)
              ThrowingDataMember == getFirstThrowingDataMember(R)
              ThrowingBaseClass == getFirstThrowingBaseClass(R)
          IN IF MoveCTOR # 0
             THEN [notes |-> <<DefinedHere(R), ThrowingCtorHere(R, MoveCTOR)>>, next |-> <<>>]
             ELSE IF ThrowingDataMember # 0
             THEN [notes |-> <<DefinedHere(R), BecauseMember(R, ThrowingDataMember)>>,
                   next |-> <<Invocation(env[R].fields[ThrowingDataMember], RecursionDepth + 1)>>]
             ELSE IF ThrowingBaseClass # 0
             THEN [notes |-> <<DefinedHere(R), BecauseBase(R, ThrowingBaseClass)>>,
                   next |-> Recurse(env[R].bases[ThrowingBaseClass].type, RecursionDepth)]
             ELSE [notes |-> <<DefinedHere(R)>>, next |-> <<>>]

\* Explain emitting 'defined here' after the cause note instead of before it.
Explain_LocatorAfterCause(Type, RecursionDepth) ==
  LET Record == getAsCXXRecordDecl(Type)
  IN IF Record = <<>> \/ ~env[Record[1]].def
     THEN [notes |-> <<>>, next |-> <<>>]
     ELSE LET R == Record[1]
              MoveCTOR == getThrowingUserDefinedMoveConstructor(R)
              ThrowingDataMember == getFirstThrowingDataMember(R)
              ThrowingBaseClass == getFirstThrowingBaseClass(R)
          IN IF MoveCTOR # 0
             THEN [notes |-> <<ThrowingCtorHere(R, MoveCTOR), DefinedHere(R)>>, next |-> <<>>]
             ELSE IF ThrowingDataMember # 0
             THEN [notes |-> <<BecauseMember(R, ThrowingDataMember), DefinedHere(R)>>,
                   next |-> Recurse(env[R].fields[ThrowingDataMember], RecursionDepth)]
             ELSE IF ThrowingBaseClass # 0
             THEN [notes |-> <<BecauseBase(R, ThrowingBaseClass), DefinedHere(R)>>,
                   next |-> Recurse(env[R].bases[ThrowingBaseClass].type, RecursionDepth)]
             ELSE [notes |-> <<DefinedHere(R)>>, next |-> <<>>]

\* Explain emitting 'defined here' only once a cause is found.
Explain_SilentTerminator(Type, RecursionDepth) ==
  LET Record == getAsCXXRecordDecl(Type)
  IN IF Record = <<>> \/ ~env[Record[1]].def
     THEN [notes |-> <<>>, next |-> <<>>]
     ELSE LET R == Record[1]
              MoveCTOR == getThrowingUserDefinedMoveConstructor(R)
              ThrowingDataMember == getFirstThrowingDataMember(R)
              ThrowingBaseClass == getFirstThrowingBaseClass(R)
          IN IF MoveCTOR # 0
             THEN [notes |-> <<DefinedHere(R), ThrowingCtorHere(R, MoveCTOR)>>, next |-> <<>>]
             ELSE IF ThrowingDataMember # 0
             THEN [notes |-> <<DefinedHere(R), BecauseMember(R, ThrowingDataMember)>>,
                   next |-> Recurse(env[R].fields[ThrowingDataMember], RecursionDepth)]
             ELSE IF ThrowingBaseClass # 0
             THEN [notes |-> <<DefinedHere(R), BecauseBase(R, ThrowingBaseClass)>>,
                   next |-> Recurse(env[R].bases[ThrowingBaseClass].type, RecursionDepth)]
             ELSE [notes |-> <<>>, next |-> <<>>]

\* Explain without the test of hasDefinition.
Explain_NoDefinitionTest(Type, RecursionDepth) ==
  LET Record == getAsCXXRecordDecl(Type)
  IN IF Record = <<>>
     THEN [notes |-> <<>>, next |-> <<>>]
     ELSE LET R == Record[1]
              MoveCTOR == getThrowingUserDefinedMoveConstructor(R)
              ThrowingDataMember == getFirstThrowingDataMember(R)
              ThrowingBaseClass == getFirstThrowingBaseClass(R)
          IN IF MoveCTOR # 0
             THEN [notes |-> <<DefinedHere(R), ThrowingCtorHere(R, MoveCTOR)>>, next |-> <<>>]
             ELSE IF ThrowingDataMember # 0
             THEN [notes |-> <<DefinedHere(R), BecauseMember(R, ThrowingDataMember)>>,
                   next |-> Recurse(env[R].fields[ThrowingDataMember], RecursionDepth)]
             ELSE IF ThrowingBaseClass # 0
             THEN [notes |-> <<DefinedHere(R), BecauseBase(R, ThrowingBaseClass)>>,
                   next |-> Recurse(env[R].bases[ThrowingBaseClass].type, RecursionDepth)]
             ELSE [notes |-> <<DefinedHere(R)>>, next |-> <<>>]

\* One invocation of recursivelyCheckMembers: the notes it emits itself and
\* the recursive call it ends with (<<>> when it returns without one).
Explain(Type, RecursionDepth) ==
  LET Record == getAsCXXRecordDecl(Type)
  IN IF Record = <<>> \/ ~env[Record[1]].def
     THEN [notes |-> <<>>, next |-> <<>>]
     ELSE LET R == Record[1]
              MoveCTOR == getThrowingUserDefinedMoveConstructor(R)
              ThrowingDataMember == getFirstThrowingDataMember(R)
              ThrowingBaseClass == getFirstThrowingBaseClass(R)
          IN IF MoveCTOR # 0
             THEN [notes |-> <<DefinedHere(R), ThrowingCtorHere(R, MoveCTOR)>>, next |-> <<>>]
             ELSE IF ThrowingDataMember # 0
             THEN [notes |-> <<DefinedHere(R), BecauseMember(R, ThrowingDataMember)>>,
                   next |-> Recurse(env[R].fields[ThrowingDataMember], RecursionDepth)]
             ELSE IF ThrowingBaseClass # 0
             THEN [notes |-> <<DefinedHere(R), BecauseBase(R, ThrowingBaseClass)>>,
                   next |-> Recurse(env[R].bases[ThrowingBaseClass].type, RecursionDepth)]
             ELSE [notes |-> <<DefinedHere(R)>>, next |-> <<>>]

\* ----------------------------------------------------------------- actions
\* A match result: whether VectorTokenId is bound, and the type bound to
\* ValueTypeId (<<>> when it is not bound).
Matches ==
  {[VectorType |-> TRUE, ValueType |-> <<T>>] : T \in Types}
  \cup {[VectorType |-> TRUE, ValueType |-> <<>>],
        [VectorType |-> FALSE, ValueType |-> <<>>],
        [VectorType |-> FALSE, ValueType |-> <<0>>]}

Init ==
  /\ \/ env \in CtorEnvs \cup FieldScanEnvs \cup BaseScanEnvs \cup ChainEnvs /\ matches = 1
     \/ env = Fixture /\ matches = MaxCalls
  /\ sink = <<>>
  /\ call = <<>>
  /\ last = <<>>
  /\ frames = <<>>
  /\ OracleIdle /\ InitListIdle /\ EditIdle

\* check starting the explanation at depth 0.
check_FromDepthZero(Result) ==
  /\ call = <<>>
  /\ matches > 0
  /\ matches' = matches - 1
  /\ last' = <<[Result |-> Result, site |-> matches, before |-> Len(sink)]>>
  /\ frames' = <<>>
  /\ IF ~Result.VectorType \/ Result.ValueType = <<>>
     THEN sink' = sink /\ call' = <<>>
     ELSE IF ~willDegradeToCopy(Result.ValueType[1])
     THEN sink' = sink /\ call' = <<>>
     ELSE /\ sink' = Append(sink, WillCopy(matches, Result.ValueType[1]))
          /\ call' = <<Invocation(Result.ValueType[1], 0)>>
  /\ UNCHANGED <<env, cache, answers, diags, delivered, operands, verdict>>

\* check starting the explanation at a depth kept from the match before.
check_KeepsDepth(Result) ==
  /\ call = <<>>
  /\ matches > 0
  /\ matches' = matches - 1
  /\ last' = <<[Result |-> Result, site |-> matches, before |-> Len(sink)]>>
  /\ frames' = <<>>
  /\ IF ~Result.VectorType \/ Result.ValueType = <<>>
     THEN sink' = sink /\ call' = <<>>
     ELSE IF ~willDegradeToCopy(Result.ValueType[1])
     THEN sink' = sink /\ call' = <<>>
     ELSE /\ sink' = Append(sink, WillCopy(matches, Result.ValueType[1]))
          /\ call' = <<Invocation(Result.ValueType[1], 1 + Len(frames))>>
  /\ UNCHANGED <<env, cache, answers, diags, delivered, operands, verdict>>

\* check without its test of willDegradeToCopy.
check_NoGate(Result) ==
  /\ call = <<>>
  /\ matches > 0
  /\ matches' = matches - 1
  /\ last' = <<[Result |-> Result, site |-> matches, before |-> Len(sink)]>>
  /\ frames' = <<>>
  /\ IF ~Result.VectorType \/ Result.ValueType = <<>>
     THEN sink' = sink /\ call' = <<>>
     ELSE /\ sink' = Append(sink, WillCopy(matches, Result.ValueType[1]))
          /\ call' = <<Invocation(Result.ValueType[1], 1)>>
  /\ UNCHANGED <<env, cache, answers, diags, delivered, operands, verdict>>

\* VectorPessimizationCheck::check up to its call of recursivelyCheckMembers.
check(Result) ==
  /\ call = <<>>
  /\ matches > 0
  /\ matches' = matches - 1
  /\ last' = <<[Result |-> Result, site |-> matches, before |-> Len(sink)]>>
  /\ frames' = <<>>
  /\ IF ~Result.VectorType \/ Result.ValueType = <<>>
     THEN sink' = sink /\ call' = <<>>
     ELSE IF ~willDegradeToCopy(Result.ValueType[1])
     THEN sink' = sink /\ call' = <<>>
     ELSE /\ sink' = Append(sink, WillCopy(matches, Result.ValueType[1]))
          /\ call' = <<Invocation(Result.ValueType[1], 1)>>
  /\ UNCHANGED <<env, cache, answers, diags, delivered, operands, verdict>>

\* recursivelyCheckMembers with its notes reaching the sink ahead of the
\* warning of check, as when the warning's builder is still alive.
recursivelyCheckMembers_NotesFirst ==
  /\ call # <<>>
  /\ LET step == Explain(call[1].Type, call[1].RecursionDepth)
     IN /\ sink' = SubSeq(sink, 1, last[1].before) \o step.notes
                     \o SubSeq(sink, last[1].before + 1, Len(sink))
        /\ call' = step.next
        /\ frames' = Append(frames, [Type |-> call[1].Type,
                                     RecursionDepth |-> call[1].RecursionDepth,
                                     notes |-> step.notes])
  /\ UNCHANGED <<env, matches, last, cache, answers, diags, delivered, operands, verdict>>

\* One invocation of VectorPessimizationCheck::recursivelyCheckMembers.
recursivelyCheckMembers ==
  /\ call # <<>>
  /\ LET step == Explain(call[1].Type, call[1].RecursionDepth)
     IN /\ sink' = sink \o step.notes
        /\ call' = step.next
        /\ frames' = Append(frames, [Type |-> call[1].Type,
                                     RecursionDepth |-> call[1].RecursionDepth,
                                     notes |-> step.notes])
  /\ UNCHANGED <<env, matches, last, cache, answers, diags, delivered, operands, verdict>>

Next ==
  \/ \E Result \in Matches : check(Result)
  \/ recursivelyCheckMembers

Spec == Init /\ [][Next]_vars

\* check calls recursivelyCheckMembers, and each invocation its successor, on
\* the one thread of the callback: a pending invocation runs.
GraphInit ==
  /\ env \in GraphEnvs
  /\ matches = 1
  /\ sink = <<>>
  /\ call = <<>>
  /\ last = <<>>
  /\ frames = <<>>
  /\ OracleIdle /\ InitListIdle /\ EditIdle

\* The translation units that vary the constructors of one class, one match.
CtorInit ==
  /\ env \in CtorEnvs
  /\ matches = 1
  /\ sink = <<>>
  /\ call = <<>>
  /\ last = <<>>
  /\ frames = <<>>
  /\ OracleIdle /\ InitListIdle /\ EditIdle

CtorSpec == CtorInit /\ [][Next]_vars

\* The test file's translation unit, several matches.
FixtureInit ==
  /\ env = Fixture
  /\ matches = MaxCalls
  /\ sink = <<>>
  /\ call = <<>>
  /\ last = <<>>
  /\ frames = <<>>
  /\ OracleIdle /\ InitListIdle /\ EditIdle

FixtureSpec == FixtureInit /\ [][Next]_vars

FairSpec == GraphInit /\ [][Next]_vars /\ WF_vars(recursivelyCheckMembers)

\* ------------------------------------- the exception-specification oracle
\* utils::ExceptionSpecAnalyzer as the check uses it: analyze looks the
\* constructor up in a mapping keyed by the constructor's identity, and on a
\* miss computes its classification and stores it; nothing is ever removed.

\* The state of the pessimization check while it delivers no match.
PessimizationIdle ==
  /\ env = Fixture
  /\ matches = 0
  /\ sink = <<>>
  /\ call = <<>>
  /\ last = <<>>
  /\ frames = <<>>

\* A key that tells constructors of different classes apart by their position
\* in the class only.
CacheKey_IndexOnly(Record, i) == <<0, i>>

\* The identity of constructor i of Record.
CacheKey(Record, i) == <<Record, i>>

Lookup(Record, i) == {e \in cache : e.key = CacheKey(Record, i)}

\* One call of analyze on constructor i of Record.
Classify(Record, i) ==
  /\ Len(answers) < MaxQueries
  /\ LET hit == Lookup(Record, i)
         State == IF hit # {} THEN (CHOOSE e \in hit : TRUE).state ELSE analyze(Record, i)
     IN /\ answers' = Append(answers, [Record |-> Record, index |-> i, state |-> State])
        /\ cache' = cache \cup {[key |-> CacheKey(Record, i), state |-> State]}
  /\ UNCHANGED <<env, matches, sink, call, last, frames, diags, delivered, operands, verdict>>

OracleInit == PessimizationIdle /\ OracleIdle /\ InitListIdle /\ EditIdle

OracleNext == \E Record \in Records : \E i \in DOMAIN env[Record].ctors : Classify(Record, i)

OracleSpec == OracleInit /\ [][OracleNext]_vars

\* ------------------------------------- performance-vector-initializer-list
\* The source text of an initializer, as Lexer::getSourceText returns it.
SourceTexts == 1 .. 2

\* The statements and expressions a fix-it's text is formatted from. arg is
\* the source text of a push_back's argument and the number a reserve is given.
Piece(stmt, type, name, arg, body) ==
  [stmt |-> stmt, type |-> type, name |-> name, arg |-> arg, body |-> body]

PushBack(name, text) == Piece("push_back", "", name, text, <<>>)

Reserve(name, n) == Piece("reserve", "", name, n, <<>>)

Declare(type, name) == Piece("declare", type, name, 0, <<>>)

Return(name) == Piece("return", "", name, 0, <<>>)

\* The immediately-invoked lambda "[&]{ ... }()" around the pieces of body.
Lambda(body) == Piece("lambda", "", "", 0, body)

\* FixItHint::CreateRemoval, CreateInsertion and CreateReplacement.
CreateRemoval(range) == [kind |-> "removal", at |-> range, text |-> <<>>]

CreateInsertion(loc, text) == [kind |-> "insertion", at |-> loc, text |-> text]

CreateReplacement(range, text) == [kind |-> "replacement", at |-> range, text |-> text]

\* diag(CIL->getExprLoc(), "(variant) Constructing std::vector ...") << fixits.
InitListDiag(variant, fixits) == [loc |-> "CIL", variant |-> variant, fixits |-> fixits]

\* What a match binds: value_type (whether the type is trivially copyable),
\* vector_type (bound with value_type, which its matcher contains),
\* construct_expr, std_init_list, init_list (its initializers' source texts),
\* var_decl (its name), return, and function_that_returns (its return type).
\* <<>> and FALSE stand for a node that is not bound.
InitListMatches ==
  {[ValueType |-> vt,
    VectorType |-> IF vt = <<>> THEN <<>> ELSE <<"std::vector">>,
    CE |-> ce, CIL |-> cil, IL |-> il, VD |-> vd, RS |-> rs, F |-> f] :
     vt \in {<<>>} \cup {<<[isTriviallyCopyableType |-> tc]>> : tc \in BOOLEAN},
     ce \in BOOLEAN, cil \in BOOLEAN,
     il \in {<<>>} \cup {<<inits>> : inits \in SeqsUpTo(SourceTexts, MaxInits)},
     vd \in {<<>>, <<"V">>}, rs \in BOOLEAN, f \in {<<>>, <<"std::vector<Test>">>}}

\* The diagnostics of check without its return on an empty list of push_backs.
InitListDiags_NoEmptyTest(Result) ==
  IF Result.ValueType = <<>> \/ ~Result.CE
  THEN <<>>
  ELSE IF Result.ValueType[1].isTriviallyCopyableType
  THEN <<>>
  ELSE IF ~Result.CIL \/ Result.IL = <<>>
  THEN <<>>
  ELSE LET VD == Result.VD
           TempVectorName == IF VD # <<>> THEN VD[1] ELSE "out"
           IL == Result.IL[1]
           EmplaceBackElements == [Idx \in 1 .. Len(IL) |-> PushBack(TempVectorName, IL[Idx])]
           Insertion == <<Reserve(TempVectorName, Len(EmplaceBackElements))>> \o EmplaceBackElements
           Variant1 == <<InitListDiag(1, <<CreateRemoval("CIL range"),
                                            CreateInsertion("VD end", Insertion)>>)>>
           Variant2 == <<InitListDiag(2, <<CreateRemoval("RS range"),
                                            CreateInsertion("RS begin - 1",
                                              <<Declare(Result.F[1], TempVectorName)>> \o Insertion)>>)>>
       IN IF VD # <<>>
          THEN Variant1
          ELSE IF Result.RS /\ Result.F # <<>>
          THEN Variant2
          ELSE <<InitListDiag(3, <<CreateReplacement("CIL range",
                    <<Lambda(<<Declare(Result.VectorType[1], TempVectorName)>> \o Insertion
                             \o <<Return(TempVectorName)>>)>>)>>)>>

\* The diagnostics of check with the return statement tried before the variable.
InitListDiags_ReturnFirst(Result) ==
  IF Result.ValueType = <<>> \/ ~Result.CE
  THEN <<>>
  ELSE IF Result.ValueType[1].isTriviallyCopyableType
  THEN <<>>
  ELSE IF ~Result.CIL \/ Result.IL = <<>>
  THEN <<>>
  ELSE LET VD == Result.VD
           TempVectorName == IF VD # <<>> THEN VD[1] ELSE "out"
           IL == Result.IL[1]
           EmplaceBackElements == [Idx \in 1 .. Len(IL) |-> PushBack(TempVectorName, IL[Idx])]
           Insertion == <<Reserve(TempVectorName, Len(EmplaceBackElements))>> \o EmplaceBackElements
           Variant1 == <<InitListDiag(1, <<CreateRemoval("CIL range"),
                                            CreateInsertion("VD end", Insertion)>>)>>
           Variant2 == <<InitListDiag(2, <<CreateRemoval("RS range"),
                                            CreateInsertion("RS begin - 1",
                                              <<Declare(Result.F[1], TempVectorName)>> \o Insertion)>>)>>
       IN IF EmplaceBackElements = <<>>
          THEN <<>>
          ELSE IF Result.RS /\ Result.F # <<>>
               THEN Variant2
               ELSE IF VD # <<>>
               THEN Variant1
               ELSE <<InitListDiag(3, <<CreateReplacement("CIL range",
                         <<Lambda(<<Declare(Result.VectorType[1], TempVectorName)>> \o Insertion
                                  \o <<Return(TempVectorName)>>)>>)>>)>>

\* The diagnostics VectorInitializerListCheck::check emits for a match: none or one.
InitListDiags(Result) ==
  IF Result.ValueType = <<>> \/ ~Result.CE
  THEN <<>>
  ELSE IF Result.ValueType[1].isTriviallyCopyableType
  THEN <<>>
  ELSE IF ~Result.CIL \/ Result.IL = <<>>
  THEN <<>>
  ELSE LET VD == Result.VD
           TempVectorName == IF VD # <<>> THEN VD[1] ELSE "out"
           IL == Result.IL[1]
           EmplaceBackElements == [Idx \in 1 .. Len(IL) |-> PushBack(TempVectorName, IL[Idx])]
           Insertion == <<Reserve(TempVectorName, Len(EmplaceBackElements))>> \o EmplaceBackElements
           Variant1 == <<InitListDiag(1, <<CreateRemoval("CIL range"),
                                            CreateInsertion("VD end", Insertion)>>)>>
           Variant2 == <<InitListDiag(2, <<CreateRemoval("RS range"),
                                            CreateInsertion("RS begin - 1",
                                              <<Declare(Result.F[1], TempVectorName)>> \o Insertion)>>)>>
       IN IF EmplaceBackElements = <<>>
          THEN <<>>
          ELSE IF VD # <<>>
               THEN Variant1
               ELSE IF Result.RS /\ Result.F # <<>>
               THEN Variant2
               ELSE <<InitListDiag(3, <<CreateReplacement("CIL range",
                         <<Lambda(<<Declare(Result.VectorType[1], TempVectorName)>> \o Insertion
                                  \o <<Return(TempVectorName)>>)>>)>>)>>

\* VectorInitializerListCheck::check on one match.
VectorInitializerListCheck_check(Result) ==
  /\ delivered = <<>>
  /\ delivered' = <<Result>>
  /\ diags' = diags \o InitListDiags(Result)
  /\ UNCHANGED <<env, matches, sink, call, last, frames, cache, answers, operands, verdict>>

InitListInit == PessimizationIdle /\ OracleIdle /\ InitListIdle /\ EditIdle

InitListNext == \E Result \in InitListMatches : VectorInitializerListCheck_check(Result)

InitListSpec == InitListInit /\ [][InitListNext]_vars

\* ------------------------------------------------------- clangd: TextEdit
\* std::string, over an alphabet of two characters, and its operator<.
Strings == SeqsUpTo(1 .. 2, MaxText)

StringLess(L, R) ==
  \E k \in 1 .. Len(R) :
    /\ \A j \in 1 .. k - 1 : j <= Len(L) /\ L[j] = R[j]
    /\ k > Len(L) \/ L[k] < R[k]

Positions == {[line |-> l, character |-> c] : l \in 0 .. MaxLine, c \in 0 .. MaxCharacter}

\* Position: operator== and operator< over std::tie(line, character).
PositionEquals(LHS, RHS) == LHS.line = RHS.line /\ LHS.character = RHS.character

PositionLess(LHS, RHS) ==
  \/ LHS.line < RHS.line
  \/ ~(RHS.line < LHS.line) /\ LHS.character < RHS.character

Ranges == {[start |-> s, end |-> e] : s \in Positions, e \in Positions}

\* Range: operator== and operator< over std::tie(start, end).
RangeEquals(LHS, RHS) == PositionEquals(LHS.start, RHS.start) /\ PositionEquals(LHS.end, RHS.end)

RangeLess(LHS, RHS) ==
  \/ PositionLess(LHS.start, RHS.start)
  \/ ~PositionLess(RHS.start, LHS.start) /\ PositionLess(LHS.end, RHS.end)

TextEdits ==
  {[range |-> r, newText |-> t, annotationId |-> a] : r \in Ranges, t \in Strings, a \in Strings}

\* operator==(const TextEdit &L, const TextEdit &R): the tuples compared are
\* (L.newText, L.range, L.annotationId) and (R.newText, R.range, L.annotationId).
TextEditEquals(L, R) ==
  /\ L.newText = R.newText
  /\ RangeEquals(L.range, R.range)
  /\ L.annotationId = L.annotationId

\* operator<(const TextEdit &L, const TextEdit &R), over the same two tuples.
TextEditLess(L, R) ==
  \/ StringLess(L.newText, R.newText)
  \/ /\ ~StringLess(R.newText, L.newText)
     /\ \/ RangeLess(L.range, R.range)
        \/ /\ ~RangeLess(R.range, L.range)
           /\ StringLess(L.annotationId, L.annotationId)

\* The three comparisons of the operands made.
compare ==
  /\ operands # <<>>
  /\ verdict = <<>>
  /\ verdict' = <<[eq |-> TextEditEquals(operands[1], operands[2]),
                   lt |-> TextEditLess(operands[1], operands[2]),
                   gt |-> TextEditLess(operands[2], operands[1])]>>
  /\ UNCHANGED <<env, matches, sink, call, last, frames, cache, answers, diags, delivered, operands>>

EditInit ==
  /\ PessimizationIdle /\ OracleIdle /\ InitListIdle
  /\ operands \in {<<L, R>> : L \in TextEdits, R \in TextEdits}
  /\ verdict = <<>>

EditNext == compare

EditSpec == EditInit /\ [][EditNext]_vars

\* ================================================================== claims
\* What the claims speak of, stated from the declarations themselves.

\* The element type of the last match, <<>> before any match or when unbound.
Element == IF last = <<>> THEN <<>> ELSE last[1].Result.ValueType

\* The diagnostics emitted for the last match.
Report == IF last = <<>> THEN <<>> ELSE SubSeq(sink, last[1].before + 1, Len(sink))

\* std::is_trivially_copyable of a type: scalar types (int, enumerations,
\* pointers) are, a class is when its definition says so.
TriviallyCopyableType(T) ==
  IF T \in Records THEN env[T].def /\ env[T].tc ELSE TRUE

MoveCtors(R) == {i \in DOMAIN env[R].ctors : env[R].ctors[i].isMoveConstructor}

UserMoveCtors(R) == {i \in MoveCtors(R) : env[R].ctors[i].isUserProvided}

Classified(R, I, st) == {i \in I : env[R].ctors[i].state = st}

\* The first move constructor of R exists and is classified st.
FirstMoveIs(R, st) == MoveCtors(R) # {} /\ env[R].ctors[Min(MoveCtors(R))].state = st

\* The first user-provided move constructor of R exists and is classified st.
FirstUserMoveIs(R, st) ==
  UserMoveCtors(R) # {} /\ env[R].ctors[Min(UserMoveCtors(R))].state = st

DegradingFields(R) ==
  {i \in DOMAIN env[R].fields : willDegradeToCopy(env[R].fields[i])}

\* The non-virtual, and the virtual, base specifiers of R whose type satisfies
\* willDegradeToCopy.
DegradingBases(R) ==
  {i \in DOMAIN env[R].bases :
     ~env[R].bases[i].virtual /\ willDegradeToCopy(env[R].bases[i].type)}

VirtualDegradingBases(R) ==
  {i \in DOMAIN env[R].bases :
     env[R].bases[i].virtual /\ willDegradeToCopy(env[R].bases[i].type)}

\* Invocation k of the last report explains a defined class.
Explains(k) == frames[k].Type \in Records /\ env[frames[k].Type].def

\* Invocation k was the last one: no recursive call follows it.
Ends(k) == k = Len(frames) /\ call = <<>>

\* Invocation k is followed by the recursive call (T, d).
ContinuesWith(k, T, d) ==
  IF k < Len(frames)
  THEN frames[k + 1].Type = T /\ frames[k + 1].RecursionDepth = d
  ELSE call = <<Invocation(T, d)>>

\* The kind of declaration the cause note of invocation k cites, "none" when
\* the invocation emitted no cause note.
Cause(k) == IF Len(frames[k].notes) >= 2 THEN frames[k].notes[2].kind ELSE "none"

\* C1: check emits no diagnostic at all when the element type does not satisfy
\* willDegradeToCopy; in particular none for an element type whose move
\* constructor is classified NotThrowing, and none for a trivially copyable
\* element type.
C1_NoOutputUnlessDegrading ==
  \A T \in Types :
    (/\ Element = <<T>>
     /\ \/ ~willDegradeToCopy(T)
        \/ T \in Records /\ env[T].def /\ FirstMoveIs(T, "NotThrowing")
        \/ TriviallyCopyableType(T))
    => Report = <<>> /\ call = <<>> /\ frames = <<>>

\* C2: willDegradeToCopy is false of every builtin and every enumeration type,
\* in every translation unit and whatever its constructors are classified.
C2_BuiltinAndEnumNeverDegrade ==
  \A T \in {IntTy, EnumTy} :
    /\ ~willDegradeToCopy(T)
    /\ Element = <<T>> => Report = <<>>

C2_Witness ==
  /\ last # <<>>
  /\ last[1].Result.VectorType
  /\ Element = <<EnumTy>>
  /\ call = <<>>
  /\ Report = <<>>
  /\ Classified(0, MoveCtors(0), "Throwing") # {}

\* C3: willDegradeToCopy is false of every trivially copyable class, whether
\* or not it declares a move constructor and however that one is classified.
C3_TriviallyCopyableNeverDegrades ==
  \A R \in Records :
    env[R].def /\ env[R].tc =>
      /\ ~willDegradeToCopy(R)
      /\ Element = <<R>> => Report = <<>>

C3_Witness ==
  /\ last # <<>>
  /\ last[1].Result.VectorType
  /\ Element = <<0>>
  /\ env[0].def /\ env[0].tc
  /\ FirstMoveIs(0, "Throwing")
  /\ call = <<>>
  /\ Report = <<>>

\* C4: willDegradeToCopy is true of a type only if the type is not trivially
\* copyable and has no move constructor classified NotThrowing.
C4_DegradesOnlyIf ==
  \A T \in Types :
    willDegradeToCopy(T) =>
      /\ ~TriviallyCopyableType(T)
      /\ T \in Records => Classified(T, MoveCtors(T), "NotThrowing") = {}

\* C5: a defined class that is not trivially copyable and whose first move
\* constructor is classified Unknown satisfies willDegradeToCopy, as one
\* whose first move constructor is classified Throwing does.
C5_UnknownDegrades ==
  \A R \in Records :
    (env[R].def /\ ~env[R].tc /\ (FirstMoveIs(R, "Unknown") \/ FirstMoveIs(R, "Throwing")))
    => willDegradeToCopy(R)

\* C6: willDegradeToCopy is false of a class without a visible definition, so
\* a match on such an element type yields no report and no cause note names
\* such a member or base.
C6_IncompleteNeverDegrades ==
  \A R \in Records :
    ~env[R].def =>
      /\ ~willDegradeToCopy(R)
      /\ Element = <<R>> => Report = <<>>
      /\ \A k \in DOMAIN frames :
           Cause(k) \in {"field", "base"} => frames[k].notes[2].arg # R

\* C7, as claimed: willDegradeToCopy is true of every class that declares a
\* user-provided move constructor classified Throwing, whatever else it
\* declares.
C7_AnyThrowingUserMoveDegrades ==
  \A R \in Records :
    env[R].def /\ Classified(R, UserMoveCtors(R), "Throwing") # {}
    => willDegradeToCopy(R)

\* C7, amended: willDegradeToCopy is true of every class whose first move
\* constructor in declaration order is user-provided and classified Throwing,
\* whatever else it declares.
C7_FirstThrowingUserMoveDegrades ==
  \A R \in Records :
    (/\ env[R].def
     /\ FirstMoveIs(R, "Throwing")
     /\ env[R].ctors[Min(MoveCtors(R))].isUserProvided)
    => /\ willDegradeToCopy(R)
       /\ (Element = <<R>> /\ last[1].Result.VectorType) => Report # <<>>

C7_Witness ==
  /\ last # <<>>
  /\ last[1].Result.VectorType
  /\ Element = <<0>>
  /\ FirstMoveIs(0, "Throwing")
  /\ env[0].ctors[Min(MoveCtors(0))].isUserProvided
  /\ Classified(0, MoveCtors(0), "NotThrowing") # {}
  /\ Report # <<>>

\* C8, as claimed: an invocation explaining a class that declares a
\* user-provided move constructor classified Throwing emits exactly the
\* class's 'defined here' note and 'throwing move constructor declared here'
\* at such a constructor, and is the last invocation of the report.
C8_AnyThrowingUserMoveEndsChain ==
  \A k \in DOMAIN frames :
    (Explains(k) /\ Classified(frames[k].Type, UserMoveCtors(frames[k].Type), "Throwing") # {})
    => /\ \E i \in Classified(frames[k].Type, UserMoveCtors(frames[k].Type), "Throwing") :
            frames[k].notes = <<DefinedHere(frames[k].Type), ThrowingCtorHere(frames[k].Type, i)>>
       /\ Ends(k)

\* C8, amended: an invocation explaining a class whose first user-provided
\* move constructor is classified Throwing emits exactly the class's 'defined
\* here' note and 'throwing move constructor declared here' at that
\* constructor, and is the last invocation of the report, whatever members
\* and bases the class has and whatever depth remains.
C8_FirstThrowingUserMoveEndsChain ==
  \A k \in DOMAIN frames :
    (Explains(k) /\ FirstUserMoveIs(frames[k].Type, "Throwing"))
    => /\ frames[k].notes =
            <<DefinedHere(frames[k].Type),
              ThrowingCtorHere(frames[k].Type, Min(UserMoveCtors(frames[k].Type)))>>
       /\ Ends(k)

C8_Witness ==
  /\ frames # <<>>
  /\ frames[1].Type = 0
  /\ frames[1].RecursionDepth < MaxRecursionDepth
  /\ FirstUserMoveIs(0, "Throwing")
  /\ DegradingFields(0) # {}
  /\ env[0].bases # <<>>
  /\ Len(frames[1].notes) = 2
  /\ call = <<>>

\* C9: an invocation explaining a class without a throwing user-provided move
\* constructor and with a member whose type satisfies willDegradeToCopy cites
\* the first such member in declaration order, and below depth 3 is followed
\* by the invocation for that member's type at depth + 1.
C9_FirstDegradingMemberCited ==
  \A k \in DOMAIN frames :
    (/\ Explains(k)
     /\ Classified(frames[k].Type, UserMoveCtors(frames[k].Type), "Throwing") = {}
     /\ DegradingFields(frames[k].Type) # {})
    => LET R == frames[k].Type
           m == Min(DegradingFields(R))
       IN /\ frames[k].notes = <<DefinedHere(R), BecauseMember(R, m)>>
          /\ frames[k].RecursionDepth < MaxRecursionDepth
             => ContinuesWith(k, env[R].fields[m], frames[k].RecursionDepth + 1)

\* A class with two degrading members cites the first and is followed by the
\* invocation for its type, which skips a non-degrading first member.
C9_Witness ==
  \E k \in DOMAIN frames :
    /\ Explains(k)
    /\ k + 1 < Len(frames)
    /\ Cardinality(DegradingFields(frames[k].Type)) = 2
    /\ env[frames[k].Type].fields[1] # env[frames[k].Type].fields[2]
    /\ frames[k].notes[2] = BecauseMember(frames[k].Type, 1)
    /\ frames[k + 1].Type = env[frames[k].Type].fields[1]
    /\ frames[k + 1].RecursionDepth = frames[k].RecursionDepth + 1
    /\ DegradingFields(frames[k + 1].Type) = {2}
    /\ frames[k + 1].notes[2] = BecauseMember(frames[k + 1].Type, 2)

\* C10, as claimed: every invocation emits at most one cause note; it cites a
\* member only if the class has no throwing user-provided move constructor,
\* and a base only if moreover no member's type satisfies willDegradeToCopy;
\* at most one recursive call is ever outstanding.
C10_PriorityOrder ==
  /\ Len(call) <= 1
  /\ \A k \in DOMAIN frames :
       /\ Len(frames[k].notes) <= 2
       /\ Cause(k) \in {"field", "base"}
          => Classified(frames[k].Type, UserMoveCtors(frames[k].Type), "Throwing") = {}
       /\ Cause(k) = "base" => DegradingFields(frames[k].Type) = {}

\* C10, amended: every invocation emits at most one cause note; it cites a
\* member only if the class's first user-provided move constructor, if any, is
\* not classified Throwing, and a base only if moreover no member's type
\* satisfies willDegradeToCopy; at most one recursive call is ever outstanding.
C10_PriorityOrderFirstUserMove ==
  /\ Len(call) <= 1
  /\ \A k \in DOMAIN frames :
       /\ Len(frames[k].notes) <= 2
       /\ Len(frames[k].notes) >= 1 => frames[k].notes[1].kind = "record"
       /\ Cause(k) \in {"field", "base"} => ~FirstUserMoveIs(frames[k].Type, "Throwing")
       /\ Cause(k) = "base" => DegradingFields(frames[k].Type) = {}

C10_Witness ==
  \E k \in DOMAIN frames :
    /\ Cause(k) = "base"
    /\ env[frames[k].Type].fields # <<>>
    /\ Len(env[frames[k].Type].bases) = 2
    /\ frames[k].notes[2].index = 2

\* C11: an invocation explaining a class without a throwing user-provided move
\* constructor and without a degrading member, and with a non-virtual base
\* whose type satisfies willDegradeToCopy, cites the first such base in
\* declaration order; below depth 3 it is followed by the invocation for that
\* base's type at depth + 1, at depth 3 it is the last; and no cause note ever
\* cites a virtual base.
C11_FirstNonVirtualDegradingBaseCited ==
  \A k \in DOMAIN frames :
    /\ (/\ Explains(k)
        /\ Classified(frames[k].Type, UserMoveCtors(frames[k].Type), "Throwing") = {}
        /\ DegradingFields(frames[k].Type) = {}
        /\ DegradingBases(frames[k].Type) # {})
       => LET R == frames[k].Type
              b == Min(DegradingBases(R))
          IN /\ frames[k].notes = <<DefinedHere(R), BecauseBase(R, b)>>
             /\ IF frames[k].RecursionDepth < MaxRecursionDepth
                THEN ContinuesWith(k, env[R].bases[b].type, frames[k].RecursionDepth + 1)
                ELSE Ends(k)
    /\ Cause(k) = "base"
       => ~env[frames[k].notes[2].owner].bases[frames[k].notes[2].index].virtual

\* A class whose first base is virtual and degrading: the second base, the
\* first non-virtual degrading one, is cited, and the invocation for its type
\* follows one level deeper.
C11_Witness ==
  \E k \in DOMAIN frames :
    /\ Explains(k)
    /\ k < Len(frames)
    /\ 1 \in VirtualDegradingBases(frames[k].Type)
    /\ DegradingBases(frames[k].Type) = {2}
    /\ frames[k].notes[2] = BecauseBase(frames[k].Type, 2)
    /\ frames[k + 1].Type = env[frames[k].Type].bases[2].type
    /\ frames[k + 1].RecursionDepth = frames[k].RecursionDepth + 1
    /\ env[frames[k].Type].bases[1].type # env[frames[k].Type].bases[2].type

\* C12, as claimed: a match whose element type has a virtual degrading base
\* as its only potential cause (no throwing user-provided move constructor,
\* no degrading member, no non-virtual degrading base) produces no diagnostic,
\* neither the warning nor any note.
C12_VirtualBaseOnlyNoDiagnostic ==
  \A R \in Records :
    (/\ Element = <<R>>
     /\ env[R].def
     /\ Classified(R, UserMoveCtors(R), "Throwing") = {}
     /\ DegradingFields(R) = {}
     /\ DegradingBases(R) = {}
     /\ VirtualDegradingBases(R) # {})
    => Report = <<>>

\* C12, amended: such a match produces no cause note and never cites the
\* virtual base: when the element type satisfies willDegradeToCopy the report
\* is the warning followed by the element type's 'defined here' note alone,
\* and otherwise there is no diagnostic.
C12_VirtualBaseOnlyNoCause ==
  \A R \in Records :
    (/\ Element = <<R>>
     /\ last[1].Result.VectorType
     /\ call = <<>>
     /\ env[R].def
     /\ Classified(R, UserMoveCtors(R), "Throwing") = {}
     /\ DegradingFields(R) = {}
     /\ DegradingBases(R) = {}
     /\ VirtualDegradingBases(R) # {})
    => Report = IF willDegradeToCopy(R)
                THEN <<WillCopy(last[1].site, R), DefinedHere(R)>>
                ELSE <<>>

C12_Witness ==
  /\ Element = <<0>>
  /\ last[1].Result.VectorType
  /\ call = <<>>
  /\ env[0].def
  /\ env[0].ctors = <<>>
  /\ env[0].fields # <<>>
  /\ DegradingFields(0) = {}
  /\ DegradingBases(0) = {}
  /\ VirtualDegradingBases(0) = {1}
  /\ Len(Report) = 2

\* A defined class that declares no throwing user-provided move constructor
\* and has exactly one member whose type satisfies willDegradeToCopy, and the
\* type of that member.
SoleDegradingMember(R) ==
  /\ env[R].def
  /\ Classified(R, UserMoveCtors(R), "Throwing") = {}
  /\ Cardinality(DegradingFields(R)) = 1

Member(R) == env[R].fields[Min(DegradingFields(R))]

\* R -> T1 -> T2 -> T3: each of R, T1 and T2 has the next as its sole
\* degrading member.
ContainmentChain(R) ==
  /\ SoleDegradingMember(R)
  /\ Member(R) \in Records
  /\ SoleDegradingMember(Member(R))
  /\ Member(Member(R)) \in Records
  /\ SoleDegradingMember(Member(Member(R)))

\* The finished report of a match on element type R.
ReportOf(R) ==
  /\ Element = <<R>>
  /\ last[1].Result.VectorType
  /\ call = <<>>
  /\ Report # <<>>

Steps(msg) == {p \in DOMAIN Report : Report[p].msg = msg}

\* C13: for a containment chain R -> T1 -> T2 -> T3 in which each type's sole
\* degrading member is the next and T3 has a throwing user-provided move
\* constructor, the report is the warning, then for each of R, T1 and T2 its
\* 'defined here' note and the 'because' note citing its member: exactly three
\* 'because' notes, the last one citing T3 and the last note of the report.
C13_DepthTruncation ==
  \A R \in Records :
    (ReportOf(R) /\ ContainmentChain(R))
    => LET T1 == Member(R)
           T2 == Member(T1)
           T3 == Member(T2)
       IN (T3 \in Records /\ env[T3].def /\ Classified(T3, UserMoveCtors(T3), "Throwing") # {})
          => /\ Report = <<WillCopy(last[1].site, R),
                           DefinedHere(R), BecauseMember(R, Min(DegradingFields(R))),
                           DefinedHere(T1), BecauseMember(T1, Min(DegradingFields(T1))),
                           DefinedHere(T2), BecauseMember(T2, Min(DegradingFields(T2)))>>
             /\ Cardinality(Steps("because the move constructor may throw")) = 3
             /\ Report[Len(Report)].arg = T3
             /\ Steps("throwing move constructor declared here") = {}

\* The report of the test file's f4.
C13_Witness ==
  /\ env = Fixture
  /\ ReportOf(0)
  /\ ContainmentChain(0)
  /\ Member(Member(Member(0))) = 3
  /\ FirstUserMoveIs(3, "Throwing")
  /\ Len(Report) = 7
  /\ Len(frames) = 3

\* C14, as claimed: for a containment chain R -> T1 -> T2 -> T3 of degrading
\* members, T3 still receives its 'defined here' note, and the report stops
\* there.
C14_ThirdLevelDefinedHere ==
  \A R \in Records :
    (ReportOf(R) /\ ContainmentChain(R))
    => LET T3 == Member(Member(Member(R)))
       IN (T3 \in Records /\ env[T3].def) => Report[Len(Report)] = DefinedHere(T3)

\* C14, amended: the explanation reaches two levels beyond the root: T2 is the
\* last type to receive its 'defined here' note, T3 is only named by T2's
\* 'because' note, which ends the report, and no invocation is made for T3.
C14_SecondLevelDefinedHere ==
  \A R \in Records :
    (ReportOf(R) /\ ContainmentChain(R))
    => LET T2 == Member(Member(R))
           T3 == Member(T2)
       IN /\ Len(frames) = MaxRecursionDepth
          /\ frames[Len(frames)].Type = T2
          /\ Report[Len(Report) - 1] = DefinedHere(T2)
          /\ Report[Len(Report)] = BecauseMember(T2, Min(DegradingFields(T2)))
          /\ Cardinality(Steps("defined here")) = MaxRecursionDepth
          /\ \A k \in DOMAIN frames : frames[k].RecursionDepth = k

\* A chain whose fourth type is a defined class with a cause of its own that
\* the report does not reach.
C14_Witness ==
  /\ env # Fixture
  /\ ReportOf(0)
  /\ ContainmentChain(0)
  /\ LET T3 == Member(Member(Member(0)))
     IN /\ T3 \in Records
        /\ env[T3].def
        /\ DegradingFields(T3) # {}
        /\ \A k \in DOMAIN frames : frames[k].Type # T3
        /\ DefinedHere(T3) \notin {Report[p] : p \in DOMAIN Report}

CauseMessages ==
  {"throwing move constructor declared here", "because the move constructor may throw"}

\* C15: the explanation of the element type starts at depth 1 and an
\* invocation is followed by another only below depth 3: no invocation is
\* ever made or pending at a depth above 3, and a report is one warning
\* followed by at most 3 'defined here' notes and at most 3 cause notes.
C15_ChainLengthBound ==
  /\ \A k \in DOMAIN frames : frames[k].RecursionDepth = k /\ k <= 3
  /\ call # <<>> => call[1].RecursionDepth = Len(frames) + 1 /\ call[1].RecursionDepth <= 3
  /\ Report # <<>>
     => /\ Report[1].level = "warning"
        /\ \A p \in 2 .. Len(Report) : Report[p].level = "note"
        /\ Cardinality(Steps("defined here")) <= 3
        /\ Cardinality(UNION {Steps(m) : m \in CauseMessages}) <= 3
        /\ Len(Report) <= 1 + 6

\* A report of full length, whose last invocation had a member left to follow.
C15_Witness ==
  /\ call = <<>>
  /\ Len(Report) = 7
  /\ Len(frames) = 3
  /\ frames[3].RecursionDepth = 3
  /\ Cause(3) = "base"
  /\ willDegradeToCopy(frames[3].notes[2].arg)
  /\ frames[3].notes[2].arg \in Records
  /\ env[frames[3].notes[2].arg].def

\* C16: every call of recursivelyCheckMembers finishes, after at most 3
\* invocations, for every member and base graph, one in which a class reaches
\* itself through its members or bases included.
C16_Terminates ==
  /\ [](Len(frames) + Len(call) <= MaxRecursionDepth)
  /\ (call # <<>>) ~> (call = <<>>)

\* Two classes that reach each other, one through a member and one through a
\* base, explained to the depth limit: the walk has come back to the element
\* type and stopped with a cause still to follow.
C16_Witness ==
  /\ call = <<>>
  /\ Len(frames) = 3
  /\ frames[1].Type # frames[2].Type
  /\ frames[3].Type = frames[1].Type
  /\ Cause(1) = "field"
  /\ Cause(2) = "base"
  /\ frames[3].notes[2].arg = frames[2].Type

\* The notes of the last report: the report without its warning.
Notes == IF Report = <<>> THEN <<>> ELSE Tail(Report)

\* C17: in every report the notes at odd positions are 'defined here' notes
\* and those at even positions cause notes; a cause note directly follows the
\* 'defined here' note of the class that owns the constructor, member or base
\* it cites; 'throwing move constructor declared here' occurs at most once,
\* as the last note of the report.
C17_ChainShape ==
  \A p \in DOMAIN Notes :
    /\ p % 2 = 1 => Notes[p] = DefinedHere(Notes[p].owner)
    /\ p % 2 = 0
       => /\ Notes[p].msg \in CauseMessages
          /\ Notes[p].kind \in {"ctor", "field", "base"}
          /\ Notes[p - 1] = DefinedHere(Notes[p].owner)
    /\ Notes[p].msg = "throwing move constructor declared here"
       => p = Len(Notes) /\ call = <<>>

\* The report of the test file's f3: three 'defined here' notes, two 'because'
\* notes and the constructor's note last.
C17_Witness ==
  /\ env = Fixture
  /\ ReportOf(1)
  /\ Len(Notes) = 6
  /\ Notes[2] = BecauseMember(1, 2)
  /\ Notes[4] = BecauseMember(2, 1)
  /\ Notes[6] = ThrowingCtorHere(3, 2)

Warnings == {p \in DOMAIN sink : sink[p].level = "warning"}

\* C18: a match on a degrading element type appends exactly one warning, for
\* its own site, ahead of every note of its report, and no site is warned of
\* twice; the notes follow top-down: the first 'defined here' note is the
\* element type's, every later one is of the type the cause note before it
\* cites; the sink never starts with a note.
C18_OneWarningThenNotesTopDown ==
  /\ \A p, q \in Warnings : sink[p].owner = sink[q].owner => p = q
  /\ sink # <<>> => 1 \in Warnings
  /\ \A T \in Types :
       (Element = <<T>> /\ last[1].Result.VectorType /\ willDegradeToCopy(T))
       => /\ Report # <<>>
          /\ Report[1] = WillCopy(last[1].site, T)
          /\ \A p \in DOMAIN Notes :
               /\ Notes[p].level = "note"
               /\ (p = 1 /\ Notes[p].msg = "defined here") => Notes[p].owner = T
               /\ (p > 1 /\ Notes[p].msg = "defined here") => Notes[p].owner = Notes[p - 1].arg

\* Two reports in one sink, the second with notes two levels deep.
C18_Witness ==
  /\ Cardinality(Warnings) = 2
  /\ call = <<>>
  /\ last # <<>>
  /\ last[1].before > 1
  /\ Len(Notes) >= 4
  /\ Notes[3].msg = "defined here"

\* C19: a warning is emitted only for an element type that satisfies
\* willDegradeToCopy, and every type a 'because' note cites, and every class
\* that receives a 'defined here' note, satisfies willDegradeToCopy.
C19_PredicateConsistency ==
  \A p \in DOMAIN sink :
    /\ sink[p].level = "warning" => willDegradeToCopy(sink[p].arg)
    /\ sink[p].msg = "because the move constructor may throw"
       => /\ willDegradeToCopy(sink[p].arg)
          /\ sink[p].kind = "field" => sink[p].arg = env[sink[p].owner].fields[sink[p].index]
          /\ sink[p].kind = "base" => sink[p].arg = env[sink[p].owner].bases[sink[p].index].type
    /\ sink[p].msg = "defined here" => willDegradeToCopy(sink[p].owner)
    /\ sink[p].msg = "throwing move constructor declared here"
       => willDegradeToCopy(sink[p].owner)

\* A finished report citing a second member after a first that does not
\* degrade, and then a base.
C19_Witness ==
  /\ call = <<>>
  /\ Len(Notes) >= 4
  /\ Notes[2].kind = "field"
  /\ Notes[2].index = 2
  /\ ~willDegradeToCopy(env[Notes[2].owner].fields[1])
  /\ Notes[4].kind = "base"

\* C20: an invocation explaining a defined class that has no throwing
\* user-provided move constructor, no degrading member and no non-virtual
\* degrading base emits the class's 'defined here' note alone and is the last
\* invocation of the report.
C20_TerminatorIsDefinedHereAlone ==
  \A k \in DOMAIN frames :
    (/\ Explains(k)
     /\ Classified(frames[k].Type, UserMoveCtors(frames[k].Type), "Throwing") = {}
     /\ DegradingFields(frames[k].Type) = {}
     /\ DegradingBases(frames[k].Type) = {})
    => /\ willDegradeToCopy(frames[k].Type)
       /\ frames[k].notes = <<DefinedHere(frames[k].Type)>>
       /\ Ends(k)

\* A class reached through a member or base, below the depth limit, that has
\* no cause of its own.
C20_Witness ==
  \E k \in DOMAIN frames :
    /\ k > 1
    /\ frames[k].RecursionDepth < MaxRecursionDepth
    /\ Explains(k)
    /\ env[frames[k].Type].ctors = <<>>
    /\ frames[k].notes = <<DefinedHere(frames[k].Type)>>
    /\ Ends(k)

\* C21: an invocation of recursivelyCheckMembers for a type that has no class
\* declaration, or whose class has no visible definition, emits no note, not
\* even 'defined here', and returns without a recursive call.
C21_NoStepWithoutDefinition ==
  \A k \in DOMAIN frames :
    ~Explains(k) => frames[k].notes = <<>> /\ Ends(k)

\* A class only declared, reached through the member or base that a 'because'
\* note cites: that note is the last of the report.
C21_Witness ==
  /\ Len(frames) = 2
  /\ call = <<>>
  /\ frames[2].Type \in Records
  /\ ~env[frames[2].Type].def
  /\ frames[2].notes = <<>>
  /\ Report[Len(Report)].msg = "because the move constructor may throw"
  /\ Report[Len(Report)].arg = frames[2].Type

\* C22: of a defined class that is not trivially copyable, willDegradeToCopy
\* is decided by the first constructor in declaration order that is a move
\* constructor, whatever move constructors follow it: the class degrades when
\* that constructor is classified Throwing, and when no declared constructor
\* is a move constructor; it does not when that constructor is classified
\* otherwise.
C22_FirstMoveConstructorDecides ==
  \A R \in Records :
    (env[R].def /\ ~env[R].tc)
    => /\ willDegradeToCopy(R) = (MoveCtors(R) = {} \/ FirstMoveIs(R, "Throwing"))
       /\ (Element = <<R>> /\ last[1].Result.VectorType)
          => (Report # <<>>) = (MoveCtors(R) = {} \/ FirstMoveIs(R, "Throwing"))

\* A first move constructor classified NotThrowing with two throwing ones
\* after it: no report.
C22_Witness ==
  /\ Element = <<0>>
  /\ last[1].Result.VectorType
  /\ ~env[0].tc
  /\ FirstMoveIs(0, "NotThrowing")
  /\ Cardinality(Classified(0, MoveCtors(0), "Throwing")) = 2
  /\ Report = <<>>
  /\ call = <<>>

\* The notes recursivelyCheckMembers emits for Type from depth d on.
RECURSIVE Chain(_, _)
Chain(Type, d) ==
  LET step == Explain(Type, d)
  IN step.notes \o (IF step.next = <<>>
                    THEN <<>>
                    ELSE Chain(step.next[1].Type, step.next[1].RecursionDepth))

\* The report that starts with the warning at position p of the sink: where
\* it ends, and whether it is finished.
ReportEnd(p) == Min({q \in Warnings : q > p} \cup {Len(sink) + 1}) - 1

Finished(p) == ReportEnd(p) < Len(sink) \/ call = <<>>

\* C23: the notes of every finished report are those the element type alone
\* determines, whatever was analysed before it; two reports on the same
\* element type are identical but for their site, and a match on an element
\* type that does not degrade adds nothing.
C23_ReportDependsOnElementOnly ==
  /\ \A p \in Warnings :
       Finished(p) => SubSeq(sink, p + 1, ReportEnd(p)) = Chain(sink[p].arg, 1)
  /\ \A p, q \in Warnings :
       (Finished(p) /\ Finished(q) /\ sink[p].arg = sink[q].arg)
       => /\ SubSeq(sink, p + 1, ReportEnd(p)) = SubSeq(sink, q + 1, ReportEnd(q))
          /\ [sink[p] EXCEPT !.owner = 0] = [sink[q] EXCEPT !.owner = 0]

\* The same instantiation analysed twice, with a report of full length.
C23_Witness ==
  /\ Cardinality(Warnings) = 2
  /\ call = <<>>
  /\ matches = 0
  /\ sink[1].arg = sink[last[1].before + 1].arg
  /\ last[1].before = 7
  /\ Len(sink) = 14

\* C24: the sink is append-only: every step leaves the diagnostics emitted so
\* far as a prefix of the sink, and the delivery of a match on an element
\* type that does not degrade, or with a binding missing, leaves the sink as
\* it was and starts no explanation.
C24_SinkAppendOnly ==
  [][/\ Len(sink') >= Len(sink)
     /\ SubSeq(sink', 1, Len(sink)) = sink
     /\ (/\ matches' # matches
         /\ \/ ~last'[1].Result.VectorType
            \/ last'[1].Result.ValueType = <<>>
            \/ ~willDegradeToCopy(last'[1].Result.ValueType[1]))
        => sink' = sink /\ call' = <<>>]_vars

\* A match on a class that does not degrade, delivered after a report.
C24_Witness ==
  /\ last # <<>>
  /\ last[1].before > 1
  /\ last[1].Result.VectorType
  /\ Element = <<5>>
  /\ ~willDegradeToCopy(5)
  /\ Len(sink) = last[1].before

\* C26: an invocation explaining a class emits 'throwing move constructor
\* declared here' exactly when the first constructor in declaration order that
\* is a move constructor and user-provided is classified Throwing, and then at
\* that constructor: never when it is classified Unknown or NotThrowing, and
\* never at a later throwing user-provided move constructor.
C26_FirstUserProvidedMoveDecidesNote ==
  \A k \in DOMAIN frames :
    Explains(k)
    => /\ (Cause(k) = "ctor") = FirstUserMoveIs(frames[k].Type, "Throwing")
       /\ Cause(k) = "ctor"
          => frames[k].notes[2] =
               ThrowingCtorHere(frames[k].Type, Min(UserMoveCtors(frames[k].Type)))

\* The constructor cited is not the one willDegradeToCopy consulted: the
\* first move constructor is not user-provided and throwing, the second is
\* user-provided and throwing.
C26_Witness ==
  /\ frames # <<>>
  /\ frames[1].Type = 0
  /\ Cause(1) = "ctor"
  /\ frames[1].notes[2].index = 2
  /\ Min(MoveCtors(0)) = 1
  /\ ~env[0].ctors[1].isUserProvided
  /\ FirstMoveIs(0, "Throwing")

\* C25: once a constructor has been classified, every later classification of
\* it returns the same value: two answers for one constructor never differ,
\* each is the classification of that constructor's exception specification,
\* and each stays stored under the constructor's identity.
C25_OracleStable ==
  /\ \A a, b \in DOMAIN answers :
       (answers[a].Record = answers[b].Record /\ answers[a].index = answers[b].index)
       => answers[a].state = answers[b].state
  /\ \A a \in DOMAIN answers :
       /\ answers[a].state = analyze(answers[a].Record, answers[a].index)
       /\ [key |-> <<answers[a].Record, answers[a].index>>, state |-> answers[a].state] \in cache

\* The move constructor of one class classified, then the move constructor of
\* another class with another classification, then the first again.
C25_Witness ==
  /\ Len(answers) >= 3
  /\ answers[1].Record = 3 /\ answers[1].index = 2
  /\ answers[2].Record = 5 /\ answers[2].index = 2
  /\ answers[3].Record = 3 /\ answers[3].index = 2
  /\ answers[1].state = "Throwing"
  /\ answers[2].state = "NotThrowing"
  /\ answers[3].state = "Throwing"
  /\ Cardinality(cache) = 2

\* C27: VectorInitializerListCheck::check emits no diagnostic when the
\* element type is trivially copyable, when the initializer list has no
\* initializer, or when the value-type, construct-expression,
\* std-initializer-list or init-list binding is missing.
C27_InitListNoDiagnostic ==
  \A Result \in InitListMatches :
    (/\ delivered = <<Result>>
     /\ \/ Result.ValueType = <<>>
        \/ Result.ValueType # <<>> /\ Result.ValueType[1].isTriviallyCopyableType
        \/ ~Result.CE
        \/ ~Result.CIL
        \/ Result.IL = <<>>
        \/ Result.IL = << <<>> >>)
    => diags = <<>>

\* Every node bound, the element type not trivially copyable, the variable
\* bound, and an initializer list without initializers.
C27_Witness ==
  /\ delivered # <<>>
  /\ delivered[1].ValueType = <<[isTriviallyCopyableType |-> FALSE]>>
  /\ delivered[1].CE
  /\ delivered[1].CIL
  /\ delivered[1].IL = << <<>> >>
  /\ delivered[1].VD # <<>>
  /\ diags = <<>>

\* The pieces of the text a diagnostic's fix-its insert, a lambda opened up.
FixItText(d) ==
  LET text == d.fixits[Len(d.fixits)].text
  IN IF text[1].stmt = "lambda" THEN text[1].body ELSE text

\* C28: check emits at most one diagnostic per match: variant (1) when the
\* variable declaration is bound, otherwise (2) when the return statement and
\* its function are bound, otherwise (3); its fix-it text has one reserve,
\* given the number N of initializers, followed directly by exactly N
\* push_backs, of the initializers' texts in their order, on the same vector.
C28_InitListOneDiagnosticByPriority ==
  \A Result \in InitListMatches :
    delivered = <<Result>>
    => /\ Len(diags) <= 1
       /\ diags # <<>>
          => LET d == diags[1]
                 IL == Result.IL[1]
                 text == FixItText(d)
                 reserves == {p \in DOMAIN text : text[p].stmt = "reserve"}
                 pushes == {p \in DOMAIN text : text[p].stmt = "push_back"}
             IN /\ d.variant = IF Result.VD # <<>> THEN 1
                               ELSE IF Result.RS /\ Result.F # <<>> THEN 2 ELSE 3
                /\ Cardinality(reserves) = 1
                /\ \A r \in reserves :
                     /\ text[r].arg = Len(IL)
                     /\ pushes = {r + j : j \in 1 .. Len(IL)}
                     /\ \A j \in 1 .. Len(IL) : text[r + j] = PushBack(text[r].name, IL[j])

\* A returned vector of two different initializers, with the variable not
\* bound: variant (2), declaring the vector ahead of the reserve.
C28_Witness ==
  /\ delivered # <<>>
  /\ delivered[1].VD = <<>>
  /\ delivered[1].IL = << <<2, 1>> >>
  /\ Len(diags) = 1
  /\ diags[1].variant = 2
  /\ FixItText(diags[1]) = <<Declare("std::vector<Test>", "out"), Reserve("out", 2),
                             PushBack("out", 2), PushBack("out", 1)>>

\* C29: two TextEdit values compare equal with operator== exactly when their
\* newText, range and annotationId are all equal, and neither is less than
\* the other with operator< exactly when they compare equal.
C29_TextEditFieldWiseEquality ==
  verdict # <<>>
  => /\ verdict[1].eq = (/\ operands[1].newText = operands[2].newText
                         /\ operands[1].range = operands[2].range
                         /\ operands[1].annotationId = operands[2].annotationId)
     /\ (~verdict[1].lt /\ ~verdict[1].gt) = verdict[1].eq
====
